---- MODULE Spec2Model ----
(***************************************************************************)
(* Model of ruststep's hand-written ap000 tables (ruststep/src/ap000.rs):  *)
(* loading a Part 21 DATA section into the Ap000 table (from_section) and  *)
(* resolving holders into owned values (Holder::into_owned, a_iter,        *)
(* b_iter, c_iter, get_entity).                                            *)
(*                                                                         *)
(* f64 values are small integers.  A Result is a record with a boolean     *)
(* field ok; a panic (panic!(), unimplemented!()) is a third outcome of    *)
(* from_section, distinct from Ok and Err.                                 *)
(*                                                                         *)
(* The record deserializer, PlaceHolder::into_owned and the EntityTable    *)
(* implementation of HashMap live in modules that ap000.rs only calls;     *)
(* they are modelled from the specification (sections 4.4 and 4.5) within  *)
(* the signatures ap000.rs calls them with.                                *)
(*                                                                         *)
(* A second specification, SpecEspr, models espr's parser of entity        *)
(* declarations (espr/src/parser/entity.rs) and its legalizer of type      *)
(* declarations (espr/src/semantics/type_decl.rs), one call per behaviour. *)
(***************************************************************************)
EXTENDS Integers, Sequences, FiniteSets, TLC

VARIABLES
    sec,    \* the DATA section handed to from_section, empty once loaded
    pc,     \* "start", then "loaded", "failed" or "panicked"; "espr", then "returned" in SpecEspr
    table,  \* the Ap000 from_section returned (the default one otherwise)
    err,    \* the error from_section returned, when pc = "failed"
    last    \* the last call made, with its arguments and what it returned

vars == <<sec, pc, table, err, last>>

(***************************************************************************)
(* Bounds and input samples                                                *)
(***************************************************************************)
\* longest section of arbitrary records (any order, duplicates, bad records)
MaxLen == 2

\* instance ids written in the sections (u64 in the code)
Ids == {1, 2}

\* f64 samples for the attributes a.x, a.y and b.z
XVals == {1}
YVals == {2}
ZVals == {3}

(***************************************************************************)
(* Result<T> and the error values                                          *)
(***************************************************************************)
Ok(v) == [ok |-> TRUE, val |-> v]

Err(e) == [ok |-> FALSE, err |-> e]

UnknownEntity(id) == [kind |-> "UnknownEntity", id |-> id]

DeserializeError(entity, field) ==
    [kind |-> "DeserializeError", entity |-> entity, field |-> field]

NoError == [kind |-> "None"]

\* error kinds of the specification's error list
DuplicateId(id, entity) == [kind |-> "DuplicateId", id |-> id, entity |-> entity]

CyclicReference(id) == [kind |-> "CyclicReference", id |-> id]

UnknownEntityType(name) == [kind |-> "UnknownEntityType", name |-> name]

Unimplemented(what) == [kind |-> "Unimplemented", what |-> what]

(***************************************************************************)
(* Part 21 records: a name and an argument list.  An argument is a real,   *)
(* a reference #n or an inline typed record NAME(args).                    *)
(***************************************************************************)
Real(v) == [t |-> "Real", v |-> v]

RefArg(n) == [t |-> "Ref", id |-> n]

Typed(name, args) == [t |-> "Typed", name |-> name, args |-> args]

Record(name, args) == [name |-> name, args |-> args]

AArgs == {<<Real(x), Real(y)>> : x \in XVals, y \in YVals}

PlaceHolderAArgs == {RefArg(n) : n \in Ids} \cup {Typed("A", a) : a \in AArgs}

BArgs == {<<Real(z), p>> : z \in ZVals, p \in PlaceHolderAArgs}

PlaceHolderBArgs == {RefArg(n) : n \in Ids} \cup {Typed("B", b) : b \in BArgs}

CArgs == {<<p, q>> : p \in PlaceHolderAArgs, q \in PlaceHolderBArgs}

ARecords == {Record("A", a) : a \in AArgs}

BRecords == {Record("B", b) : b \in BArgs}

CRecords == {Record("C", c) : c \in CArgs}

GoodRecords == ARecords \cup BRecords \cup CRecords

\* records of a known entity that do not deserialize: wrong arity, a real
\* where an entity is expected, an inline record of the wrong entity
BadRecords ==
    {Record("A", <<Real(x)>>) : x \in XVals}
    \cup {Record("B", <<Real(z), Real(z)>>) : z \in ZVals}
    \cup {Record("C", <<RefArg(1), Typed("A", a)>>) : a \in AArgs}

\* records whose name is no entity of the schema
UnknownRecords == {Record("D", <<>>)}

\* well-formed records of the entity A whose name is written in lower case
LowerCaseRecords == {Record("a", a) : a \in AArgs}

Records == GoodRecords \cup BadRecords \cup UnknownRecords \cup LowerCaseRecords

Simple(id, record) == [kind |-> "Simple", name |-> id, record |-> record]

Complex(id) == [kind |-> "Complex", name |-> id]

EntityInstances ==
    {Simple(n, r) : n \in Ids, r \in Records} \cup {Complex(n) : n \in Ids}

(***************************************************************************)
(* Holders, placeholders and owned values                                  *)
(***************************************************************************)
Owned(h) == [tag |-> "Owned", val |-> h]

Ref(id) == [tag |-> "Ref", id |-> id]

AHolder(x, y) == [x |-> x, y |-> y]

BHolder(z, a) == [z |-> z, a |-> a]

CHolder(p, q) == [p |-> p, q |-> q]

AHolders == {AHolder(x, y) : x \in XVals, y \in YVals}

PlaceHolderAs == {Ref(n) : n \in Ids} \cup {Owned(h) : h \in AHolders}

BHolders == {BHolder(z, a) : z \in ZVals, a \in PlaceHolderAs}

PlaceHolderBs == {Ref(n) : n \in Ids} \cup {Owned(h) : h \in BHolders}

CHolders == {CHolder(p, q) : p \in PlaceHolderAs, q \in PlaceHolderBs}

A(x, y) == [x |-> x, y |-> y]

B(z, a) == [z |-> z, a |-> a]

C(p, q) == [p |-> p, q |-> q]

\* the table: one id -> holder map per entity type (Default is all empty)
Ap000(a, b, c) == [a |-> a, b |-> b, c |-> c]

EmptyMap == [i \in {} |-> 0]

Ap000Default == Ap000(EmptyMap, EmptyMap, EmptyMap)

(***************************************************************************)
(* Deserialization of a record into a holder.  A reference argument #n     *)
(* becomes Ref(n) without any table lookup; an inline typed record is      *)
(* deserialized recursively and wrapped in Owned.  A wrong name, a wrong   *)
(* argument count or a wrong argument kind is an error naming the field    *)
(* (0 for the record as a whole); the name is compared in upper case.      *)
(***************************************************************************)
\* str::to_uppercase on the names the sections write
to_uppercase(name) ==
    IF name = "a" THEN "A"
    ELSE IF name = "b" THEN "B"
    ELSE IF name = "c" THEN "C"
    ELSE IF name = "d" THEN "D"
    ELSE name

AHolder_deserialize(record) ==
    IF to_uppercase(record.name) # "A" \/ Len(record.args) # 2
    THEN Err(DeserializeError("A", 0))
    ELSE IF record.args[1].t # "Real" THEN Err(DeserializeError("A", 1))
    ELSE IF record.args[2].t # "Real" THEN Err(DeserializeError("A", 2))
    ELSE Ok(AHolder(record.args[1].v, record.args[2].v))

PlaceHolderA_deserialize(arg, entity, field) ==
    IF arg.t = "Ref" THEN Ok(Ref(arg.id))
    ELSE IF arg.t = "Typed"
    THEN LET h == AHolder_deserialize(Record(arg.name, arg.args))
         IN  IF h.ok THEN Ok(Owned(h.val)) ELSE Err(DeserializeError(entity, field))
    ELSE Err(DeserializeError(entity, field))

BHolder_deserialize(record) ==
    IF to_uppercase(record.name) # "B" \/ Len(record.args) # 2
    THEN Err(DeserializeError("B", 0))
    ELSE IF record.args[1].t # "Real" THEN Err(DeserializeError("B", 1))
    ELSE LET a == PlaceHolderA_deserialize(record.args[2], "B", 2)
         IN  IF a.ok THEN Ok(BHolder(record.args[1].v, a.val)) ELSE a

PlaceHolderB_deserialize(arg, entity, field) ==
    IF arg.t = "Ref" THEN Ok(Ref(arg.id))
    ELSE IF arg.t = "Typed"
    THEN LET h == BHolder_deserialize(Record(arg.name, arg.args))
         IN  IF h.ok THEN Ok(Owned(h.val)) ELSE Err(DeserializeError(entity, field))
    ELSE Err(DeserializeError(entity, field))

CHolder_deserialize(record) ==
    IF to_uppercase(record.name) # "C" \/ Len(record.args) # 2
    THEN Err(DeserializeError("C", 0))
    ELSE LET p == PlaceHolderA_deserialize(record.args[1], "C", 1)
             q == PlaceHolderB_deserialize(record.args[2], "C", 2)
         IN  IF ~p.ok THEN p
             ELSE IF ~q.ok THEN q
             ELSE Ok(CHolder(p.val, q.val))

(***************************************************************************)
(* Ap000::from_section                                                     *)
(***************************************************************************)
\* HashMap::insert: the value stored under an existing key is replaced
insert(map, key, value) ==
    [k \in DOMAIN map \cup {key} |-> IF k = key THEN value ELSE map[k]]

LoadOk(t) == [tag |-> "Ok", table |-> t, err |-> NoError]

LoadErr(e) == [tag |-> "Err", table |-> Ap000Default, err |-> e]

LoadPanic == [tag |-> "Panic", table |-> Ap000Default, err |-> NoError]

\* a faulty loader that resolves references while it loads: a B record
\* citing an A that is not in the table yet is refused
from_section_entity_eager(t, entity) ==
    IF entity.kind = "Complex" THEN LoadPanic
    ELSE IF entity.record.name = "A"
    THEN LET h == AHolder_deserialize(entity.record)
         IN  IF h.ok THEN LoadOk([t EXCEPT !.a = insert(t.a, entity.name, h.val)])
             ELSE LoadErr(h.err)
    ELSE IF entity.record.name = "B"
    THEN LET h == BHolder_deserialize(entity.record)
         IN  IF ~h.ok THEN LoadErr(h.err)
             ELSE IF h.val.a.tag = "Ref" /\ h.val.a.id \notin DOMAIN t.a
             THEN LoadErr(UnknownEntity(h.val.a.id))
             ELSE LoadOk([t EXCEPT !.b = insert(t.b, entity.name, h.val)])
    ELSE IF entity.record.name = "C"
    THEN LET h == CHolder_deserialize(entity.record)
         IN  IF h.ok THEN LoadOk([t EXCEPT !.c = insert(t.c, entity.name, h.val)])
             ELSE LoadErr(h.err)
    ELSE LoadPanic

\* a faulty loader that skips a record it cannot deserialize
from_section_entity_skip(t, entity) ==
    IF entity.kind = "Complex" THEN LoadPanic
    ELSE IF entity.record.name = "A"
    THEN LET h == AHolder_deserialize(entity.record)
         IN  IF h.ok THEN LoadOk([t EXCEPT !.a = insert(t.a, entity.name, h.val)])
             ELSE LoadOk(t)
    ELSE IF entity.record.name = "B"
    THEN LET h == BHolder_deserialize(entity.record)
         IN  IF h.ok THEN LoadOk([t EXCEPT !.b = insert(t.b, entity.name, h.val)])
             ELSE LoadOk(t)
    ELSE IF entity.record.name = "C"
    THEN LET h == CHolder_deserialize(entity.record)
         IN  IF h.ok THEN LoadOk([t EXCEPT !.c = insert(t.c, entity.name, h.val)])
             ELSE LoadOk(t)
    ELSE LoadPanic

\* a faulty loader that keeps one id space for all entity types: storing
\* a record under an id drops what the other maps hold under that id
from_section_entity_one_id_space(t, entity) ==
    IF entity.kind = "Complex" THEN LoadPanic
    ELSE LET others(map) == [k \in DOMAIN map \ {entity.name} |-> map[k]]
         IN  IF entity.record.name = "A"
             THEN LET h == AHolder_deserialize(entity.record)
                  IN  IF h.ok
                      THEN LoadOk(Ap000(insert(t.a, entity.name, h.val),
                                        others(t.b), others(t.c)))
                      ELSE LoadErr(h.err)
             ELSE IF entity.record.name = "B"
             THEN LET h == BHolder_deserialize(entity.record)
                  IN  IF h.ok
                      THEN LoadOk(Ap000(others(t.a),
                                        insert(t.b, entity.name, h.val), others(t.c)))
                      ELSE LoadErr(h.err)
             ELSE IF entity.record.name = "C"
             THEN LET h == CHolder_deserialize(entity.record)
                  IN  IF h.ok
                      THEN LoadOk(Ap000(others(t.a), others(t.b),
                                        insert(t.c, entity.name, h.val)))
                      ELSE LoadErr(h.err)
             ELSE LoadPanic

\* a faulty loader that follows a reference of a B record while it loads:
\* when the A it cites is already in the table, the B holder stores a copy
\* of that A holder in place of the reference
from_section_entity_follow(t, entity) ==
    IF entity.kind = "Complex" THEN LoadPanic
    ELSE IF entity.record.name = "A"
    THEN LET h == AHolder_deserialize(entity.record)
         IN  IF h.ok THEN LoadOk([t EXCEPT !.a = insert(t.a, entity.name, h.val)])
             ELSE LoadErr(h.err)
    ELSE IF entity.record.name = "B"
    THEN LET h == BHolder_deserialize(entity.record)
         IN  IF ~h.ok THEN LoadErr(h.err)
             ELSE IF h.val.a.tag = "Ref" /\ h.val.a.id \in DOMAIN t.a
             THEN LoadOk([t EXCEPT !.b = insert(t.b, entity.name,
                                 BHolder(h.val.z, Owned(t.a[h.val.a.id])))])
             ELSE LoadOk([t EXCEPT !.b = insert(t.b, entity.name, h.val)])
    ELSE IF entity.record.name = "C"
    THEN LET h == CHolder_deserialize(entity.record)
         IN  IF h.ok THEN LoadOk([t EXCEPT !.c = insert(t.c, entity.name, h.val)])
             ELSE LoadErr(h.err)
    ELSE LoadPanic

\* the body of the for loop for one entity: the tables after it, the error
\* the ? operator returns, or a panic
from_section_entity(t, entity) ==
    IF entity.kind = "Complex" THEN LoadPanic
    ELSE IF entity.record.name = "A"
    THEN LET h == AHolder_deserialize(entity.record)
         IN  IF h.ok THEN LoadOk([t EXCEPT !.a = insert(t.a, entity.name, h.val)])
             ELSE LoadErr(h.err)
    ELSE IF entity.record.name = "B"
    THEN LET h == BHolder_deserialize(entity.record)
         IN  IF h.ok THEN LoadOk([t EXCEPT !.b = insert(t.b, entity.name, h.val)])
             ELSE LoadErr(h.err)
    ELSE IF entity.record.name = "C"
    THEN LET h == CHolder_deserialize(entity.record)
         IN  IF h.ok THEN LoadOk([t EXCEPT !.c = insert(t.c, entity.name, h.val)])
             ELSE LoadErr(h.err)
    ELSE LoadPanic

RECURSIVE from_section_loop(_, _, _)
from_section_loop(entities, i, t) ==
    IF i > Len(entities) THEN LoadOk(t)
    ELSE LET r == from_section_entity(t, entities[i])
         IN  IF r.tag = "Ok" THEN from_section_loop(entities, i + 1, r.table)
             ELSE r

from_section(entities) == from_section_loop(entities, 1, Ap000Default)

(***************************************************************************)
(* EntityTable::get_entity and Holder::into_owned                          *)
(***************************************************************************)
\* EntityTable<T> for HashMap<u64, T>
HashMap_get_entity(map, id) ==
    IF id \in DOMAIN map THEN Ok(map[id]) ELSE Err(UnknownEntity(id))

get_entity_A(t, id) == HashMap_get_entity(t.a, id)

get_entity_B(t, id) == HashMap_get_entity(t.b, id)

get_entity_C(t, id) == HashMap_get_entity(t.c, id)

\* a faulty resolution that exchanges the two fields
AHolder_into_owned_swapped(h, t) == Ok(A(h.y, h.x))

AHolder_into_owned(h, t) == Ok(A(h.x, h.y))

\* PlaceHolder<AHolder>::into_owned.  Holder::into_owned takes the holder and
\* the table only, so no set of visited ids travels from one call to the
\* next; a reference is looked up in the A map and the holder found there
\* is resolved.
PlaceHolderA_into_owned(ph, t) ==
    IF ph.tag = "Owned" THEN AHolder_into_owned(ph.val, t)
    ELSE LET h == get_entity_A(t, ph.id)
         IN  IF h.ok THEN AHolder_into_owned(h.val, t) ELSE h

\* a faulty resolution that drops the error of the field a (no ? on it)
\* and fills the field with a default A
BHolder_into_owned_default(h, t) ==
    LET a == PlaceHolderA_into_owned(h.a, t)
    IN  Ok(B(h.z, IF a.ok THEN a.val ELSE A(0, 0)))

BHolder_into_owned(h, t) ==
    LET a == PlaceHolderA_into_owned(h.a, t)
    IN  IF a.ok THEN Ok(B(h.z, a.val)) ELSE a

\* PlaceHolder<BHolder>::into_owned
PlaceHolderB_into_owned(ph, t) ==
    IF ph.tag = "Owned" THEN BHolder_into_owned(ph.val, t)
    ELSE LET h == get_entity_B(t, ph.id)
         IN  IF h.ok THEN BHolder_into_owned(h.val, t) ELSE h

\* a faulty resolution that resolves q before p
CHolder_into_owned_q_first(h, t) ==
    LET q == PlaceHolderB_into_owned(h.q, t)
    IN  IF ~q.ok THEN q
        ELSE LET p == PlaceHolderA_into_owned(h.p, t)
             IN  IF p.ok THEN Ok(C(p.val, q.val)) ELSE p

CHolder_into_owned(h, t) ==
    LET p == PlaceHolderA_into_owned(h.p, t)
    IN  IF ~p.ok THEN p
        ELSE LET q == PlaceHolderB_into_owned(h.q, t)
             IN  IF q.ok THEN Ok(C(p.val, q.val)) ELSE q

into_owned(ty, h, t) ==
    IF ty = "A" THEN AHolder_into_owned(h, t)
    ELSE IF ty = "B" THEN BHolder_into_owned(h, t)
    ELSE CHolder_into_owned(h, t)

(***************************************************************************)
(* The table lookups a resolution makes, in the order it makes them: one   *)
(* get_entity per reference it comes to, none after the first that fails.  *)
(***************************************************************************)
Lookup(ty, id) == [ty |-> ty, id |-> id]

AHolder_lookups(h, t) == <<>>

PlaceHolderA_lookups(ph, t) ==
    IF ph.tag = "Owned" THEN AHolder_lookups(ph.val, t)
    ELSE <<Lookup("A", ph.id)>>
             \o (IF get_entity_A(t, ph.id).ok
                 THEN AHolder_lookups(get_entity_A(t, ph.id).val, t)
                 ELSE <<>>)

BHolder_lookups(h, t) == PlaceHolderA_lookups(h.a, t)

PlaceHolderB_lookups(ph, t) ==
    IF ph.tag = "Owned" THEN BHolder_lookups(ph.val, t)
    ELSE <<Lookup("B", ph.id)>>
             \o (IF get_entity_B(t, ph.id).ok
                 THEN BHolder_lookups(get_entity_B(t, ph.id).val, t)
                 ELSE <<>>)

\* a faulty resolution that resolves q once to test it and once more to
\* take its value
CHolder_lookups_twice(h, t) ==
    IF PlaceHolderA_into_owned(h.p, t).ok
    THEN PlaceHolderA_lookups(h.p, t) \o PlaceHolderB_lookups(h.q, t)
             \o PlaceHolderB_lookups(h.q, t)
    ELSE PlaceHolderA_lookups(h.p, t)

CHolder_lookups(h, t) ==
    IF PlaceHolderA_into_owned(h.p, t).ok
    THEN PlaceHolderA_lookups(h.p, t) \o PlaceHolderB_lookups(h.q, t)
    ELSE PlaceHolderA_lookups(h.p, t)

lookups(ty, h, t) ==
    IF ty = "A" THEN AHolder_lookups(h, t)
    ELSE IF ty = "B" THEN BHolder_lookups(h, t)
    ELSE CHolder_lookups(h, t)

(***************************************************************************)
(* The sections the loader is run on                                       *)
(***************************************************************************)
\* every sequence of at most MaxLen entity instances
ShortSections == UNION {[1..n -> EntityInstances] : n \in 0..MaxLen}

RECURSIVE SortedSeq(_)
SortedSeq(S) ==
    IF S = {} THEN <<>>
    ELSE LET m == CHOOSE x \in S : \A y \in S : x <= y
         IN  <<m>> \o SortedSeq(S \ {m})

PartialMaps(range) == UNION {[S -> range] : S \in SUBSET Ids}

InstancesOf(f) ==
    LET order == SortedSeq(DOMAIN f)
    IN  [k \in 1..Len(order) |-> Simple(order[k], f[order[k]])]

\* every well-formed section of at most MaxLen + 1 records with at most one
\* record per entity type and id, written A records first, then B, then C,
\* by ascending id
SortedSections ==
    {s \in {InstancesOf(fa) \o InstancesOf(fb) \o InstancesOf(fc) :
                fa \in PartialMaps(ARecords),
                fb \in PartialMaps(BRecords),
                fc \in PartialMaps(CRecords)} :
        Len(s) <= MaxLen + 1}

Sections == ShortSections \cup SortedSections

(***************************************************************************)
(* State machine                                                           *)
(***************************************************************************)
NoCall == [op |-> "none"]

Init ==
    /\ sec \in Sections
    /\ pc = "start"
    /\ table = Ap000Default
    /\ err = NoError
    /\ last = NoCall

LoadCall(entities) == [op |-> "from_section", entities |-> entities]

\* let table = Ap000::from_section(&sec): the section is borrowed for the
\* call only, the program goes on with the table
FromSection ==
    /\ pc = "start"
    /\ LET r == from_section(sec)
       IN  /\ pc' = IF r.tag = "Ok" THEN "loaded"
                    ELSE IF r.tag = "Err" THEN "failed" ELSE "panicked"
           /\ table' = r.table
           /\ err' = r.err
    /\ last' = LoadCall(sec)
    /\ sec' = <<>>

\* the orders in which HashMap::values may visit the keys of a map
Orders(map) ==
    {o \in [1..Cardinality(DOMAIN map) -> DOMAIN map] :
        \A i, j \in DOMAIN o : i # j => o[i] # o[j]}

\* a faulty iterator that ends at the first Err item
iter_items_until_err(ty, map, order, t) ==
    LET all == [k \in 1..Len(order) |-> into_owned(ty, map[order[k]], t)]
        failing == {k \in DOMAIN all : ~all[k].ok}
    IN  IF failing = {} THEN all
        ELSE SubSeq(all, 1, CHOOSE k \in failing : \A j \in failing : k <= j)

\* map.values().cloned().map(|value| value.into_owned(&self)), collected
iter_items(ty, map, order, t) ==
    [k \in 1..Len(order) |-> into_owned(ty, map[order[k]], t)]

IterCall(op, order, items) == [op |-> op, order |-> order, items |-> items]

\* a faulty a_iter that moves the holders out of the map
a_iter_drain ==
    /\ pc = "loaded"
    /\ \E order \in Orders(table.a) :
          last' = IterCall("a_iter", order, iter_items("A", table.a, order, table))
    /\ table' = [table EXCEPT !.a = EmptyMap]
    /\ UNCHANGED <<sec, pc, err>>

a_iter ==
    /\ pc = "loaded"
    /\ \E order \in Orders(table.a) :
          last' = IterCall("a_iter", order, iter_items("A", table.a, order, table))
    /\ UNCHANGED <<sec, pc, table, err>>

b_iter ==
    /\ pc = "loaded"
    /\ \E order \in Orders(table.b) :
          last' = IterCall("b_iter", order, iter_items("B", table.b, order, table))
    /\ UNCHANGED <<sec, pc, table, err>>

c_iter ==
    /\ pc = "loaded"
    /\ \E order \in Orders(table.c) :
          last' = IterCall("c_iter", order, iter_items("C", table.c, order, table))
    /\ UNCHANGED <<sec, pc, table, err>>

GetCall(ty, id, res) == [op |-> "get_entity", ty |-> ty, id |-> id, res |-> res]

get_entity ==
    /\ pc = "loaded"
    /\ \E id \in Ids :
          \/ last' = GetCall("A", id, get_entity_A(table, id))
          \/ last' = GetCall("B", id, get_entity_B(table, id))
          \/ last' = GetCall("C", id, get_entity_C(table, id))
    /\ UNCHANGED <<sec, pc, table, err>>

Next == FromSection \/ a_iter \/ b_iter \/ c_iter \/ get_entity

Spec == Init /\ [][Next]_vars

(***************************************************************************)
(* espr: the EXPRESS parser of entity declarations (parser/entity.rs).     *)
(*                                                                         *)
(* A source text is the sequence of its tokens: words (identifiers and     *)
(* reserved words) and the punctuation "," ":" ";".  The white space and   *)
(* remarks between tokens (spaces_or_remarks, remarked) are consumed where *)
(* the parsers allow them and carry no part of the parsed value.  A parser *)
(* returns Ok with a value and the residual input, or the error of the     *)
(* parser that rejected (a sequence of parsers fails with the error of its *)
(* first failing part, alt with the error of its last alternative).        *)
(***************************************************************************)
POk(val, rest) == [ok |-> TRUE, val |-> val, rest |-> rest]

PErr(expected) == [ok |-> FALSE, expected |-> expected]

\* the simple-type keywords and the SimpleType each one names
SimpleTypeKeywords == {"NUMBER", "REAL", "INTEGER", "LOGICAL", "BOOLEAN", "STRING", "BINARY"}

SimpleTypeOf(keyword) ==
    CASE keyword = "NUMBER" -> "Number"
      [] keyword = "REAL" -> "Real"
      [] keyword = "INTEGER" -> "Integer"
      [] keyword = "LOGICAL" -> "Logical"
      [] keyword = "BOOLEAN" -> "Boolen"
      [] keyword = "STRING" -> "String_"
      [] keyword = "BINARY" -> "Binary"

\* the reserved words of the texts: no identifier is one of them
ReservedWords == SimpleTypeKeywords \cup {"ENTITY", "END_ENTITY"}

Punctuation == {",", ":", ";"}

\* ParameterType
Named(id) == [tag |-> "Named", name |-> id]

SimpleParameterType(ty) == [tag |-> "Simple", ty |-> ty]

\* Entity
Entity(name, attributes) == [name |-> name, attributes |-> attributes]

\* one parser after another (nom's tuple): next runs on what the parser
\* before it returned, and an error ends the sequence
and_then(result, next(_)) ==
    CHOOSE r \in {IF x.ok THEN next(x) ELSE x : x \in {result}} : TRUE

\* Parser::map: the value of a successful parse is passed through f
map_value(result, f(_)) ==
    CHOOSE r \in {IF x.ok THEN POk(f(x.val), x.rest) ELSE x : x \in {result}} : TRUE

\* alt of two parsers: the first if it succeeds, else the second
alt(first, second) ==
    CHOOSE r \in {IF x.ok THEN x ELSE second : x \in {first}} : TRUE

\* nom's tag: the input starts with the token
tag(token, input) ==
    IF input # <<>> /\ Head(input) = token THEN POk(token, Tail(input))
    ELSE PErr(token)

\* 143 simple_id: a word that is not reserved
simple_id(input) ==
    IF input # <<>> /\ Head(input) \notin Punctuation \cup ReservedWords
    THEN POk(Head(input), Tail(input))
    ELSE PErr("simple_id")

\* 307 simple_types: one of the simple-type keywords
simple_types(input) ==
    IF input # <<>> /\ Head(input) \in SimpleTypeKeywords
    THEN POk(SimpleTypeOf(Head(input)), Tail(input))
    ELSE PErr("simple_types")

\* a faulty parameter type that knows named types only
paramter_type_named_only(input) == map_value(simple_id(input), Named)

\* alt((simple_id.map_value(Named), simple_types.map_value(Simple)))
paramter_type(input) ==
    alt(map_value(simple_id(input), Named),
        map_value(simple_types(input), SimpleParameterType))

\* comma_separated(remarked(simple_id)): one identifier, then every
\* following ", identifier"
RECURSIVE comma_separated(_)
comma_separated(input) ==
    and_then(simple_id(input), LAMBDA id :
        alt(and_then(tag(",", id.rest), LAMBDA comma :
                map_value(comma_separated(comma.rest), LAMBDA more : <<id.val>> \o more)),
            POk(<<id.val>>, id.rest)))

\* 215 explicit_attr = attribute_decl { `,` attribute_decl } `:` parameter_type `;`
explicit_attr(input) ==
    and_then(comma_separated(input), LAMBDA attrs :
    and_then(tag(":", attrs.rest), LAMBDA colon :
    and_then(paramter_type(colon.rest), LAMBDA ty :
    and_then(tag(";", ty.rest), LAMBDA semicolon :
        POk(<<attrs.val, ty.val>>, semicolon.rest)))))

\* 207 entity_head = ENTITY entity_id `;`
entity_head(input) ==
    and_then(tag("ENTITY", input), LAMBDA entity :
    and_then(simple_id(entity.rest), LAMBDA id :
    and_then(tag(";", id.rest), LAMBDA semicolon :
        POk(id.val, semicolon.rest))))

\* spaced_many0(explicit_attr): explicit_attr as often as it succeeds
RECURSIVE spaced_many0(_)
spaced_many0(input) ==
    alt(and_then(explicit_attr(input), LAMBDA first :
            map_value(spaced_many0(first.rest), LAMBDA more : <<first.val>> \o more)),
        POk(<<>>, input))

\* attrs.into_iter().map_value(move |attr| (attr, ty.clone()))
with_type(attrs, ty) == [k \in DOMAIN attrs |-> <<attrs[k], ty>>]

\* a faulty expansion that keeps the first name of a comma list only
RECURSIVE expand_first_only(_)
expand_first_only(attributes) ==
    IF attributes = <<>> THEN <<>>
    ELSE with_type(<<attributes[1][1][1]>>, attributes[1][2])
             \o expand_first_only(Tail(attributes))

\* attributes.into_iter().map_value(..).flatten().collect()
RECURSIVE expand(_)
expand(attributes) ==
    IF attributes = <<>> THEN <<>>
    ELSE with_type(attributes[1][1], attributes[1][2]) \o expand(Tail(attributes))

\* 206 entity_decl = entity_head entity_body END_ENTITY `;`
entity_decl(input) ==
    and_then(entity_head(input), LAMBDA name :
    and_then(spaced_many0(name.rest), LAMBDA attributes :
    and_then(tag("END_ENTITY", attributes.rest), LAMBDA end :
    and_then(tag(";", end.rest), LAMBDA semicolon :
        POk(Entity(name.val, expand(attributes.val)), semicolon.rest)))))

(***************************************************************************)
(* espr: legalization of a type declaration (semantics/type_decl.rs).      *)
(* A namespace is the set of the type names declared in the scope.         *)
(***************************************************************************)
\* ast::types::UnderlyingType
AstSimple(ty) == [kind |-> "Simple", ty |-> ty]

AstReference(name) == [kind |-> "Reference", name |-> name]

AstEnumeration(items) == [kind |-> "Enumeration", items |-> items]

AstSelect(types) == [kind |-> "Select", types |-> types]

\* Set, Bag, List and Array of a base underlying type
AstAggregate(kind, base) == [kind |-> kind, base |-> base]

AggregateKinds == {"Set", "Bag", "List", "Array"}

\* ast::types::TypeDecl
TypeDecl(type_id, underlying_type) ==
    [type_id |-> type_id, underlying_type |-> underlying_type]

\* TypeRef
TypeRefSimpleType(ty) == [ref |-> "SimpleType", ty |-> ty]

TypeRefNamed(scope, name) == [ref |-> "Named", scope |-> scope, name |-> name]

\* semantics::UnderlyingType
UnderlyingSimple(ref) == [kind |-> "Simple", ref |-> ref]

UnderlyingReference(ref) == [kind |-> "Reference", ref |-> ref]

UnderlyingEnumeration(items) == [kind |-> "Enumeration", items |-> items]

UnderlyingSelect(refs) == [kind |-> "Select", refs |-> refs]

UnresolvedName(name) == [kind |-> "UnresolvedName", name |-> name]

\* unimplemented!(): the call does not return
Panicked(what) == [ok |-> FALSE, panicked |-> what]

\* Namespace::lookup_type
lookup_type(ns, scope, name) ==
    IF name \in ns THEN Ok(TypeRefNamed(scope, name)) ELSE Err(UnresolvedName(name))

\* types.iter().map(|ty| ns.lookup_type(scope, ty)).collect::<Result<Vec<_>, _>>():
\* the references in the written order, or the first error
RECURSIVE lookup_types(_, _, _)
lookup_types(ns, scope, types) ==
    IF types = <<>> THEN Ok(<<>>)
    ELSE LET first == lookup_type(ns, scope, Head(types))
         IN  IF ~first.ok THEN first
             ELSE LET more == lookup_types(ns, scope, Tail(types))
                  IN  IF more.ok THEN Ok(<<first.val>> \o more.val) ELSE more

\* <UnderlyingType as Legalize>::legalize
UnderlyingType_legalize(ns, scope, input) ==
    IF input.kind = "Simple" THEN Ok(UnderlyingSimple(TypeRefSimpleType(input.ty)))
    ELSE IF input.kind = "Reference"
    THEN LET ref == lookup_type(ns, scope, input.name)
         IN  IF ref.ok THEN Ok(UnderlyingReference(ref.val)) ELSE ref
    ELSE IF input.kind = "Enumeration" THEN Ok(UnderlyingEnumeration(input.items))
    ELSE IF input.kind = "Select"
    THEN LET refs == lookup_types(ns, scope, input.types)
         IN  IF refs.ok THEN Ok(UnderlyingSelect(refs.val)) ELSE refs
    ELSE Panicked("not implemented")

\* <TypeDecl as Legalize>::legalize
TypeDecl_legalize(ns, scope, type_decl) ==
    LET underlying_type == UnderlyingType_legalize(ns, scope, type_decl.underlying_type)
    IN  IF underlying_type.ok
        THEN Ok(TypeDecl(type_decl.type_id, underlying_type.val))
        ELSE underlying_type

(***************************************************************************)
(* espr: the texts, declarations and namespaces the parser and the         *)
(* legalizer are run on                                                    *)
(***************************************************************************)
\* most names in one comma list of an explicit attribute
MaxAttrs == 2

\* most explicit attribute clauses in one entity declaration
MaxClauses == 2

\* most items of an enumeration and most members of a select
MaxItems == 2

AttrIds == {"x", "y"}

EntityIds == {"first"}

TypeIds == {"second", "third"}

\* the words written as the type of an attribute
TypeWords == {"REAL", "STRING"} \cup TypeIds

SeqsUpTo(S, lo, hi) == UNION {[1..n -> S] : n \in lo..hi}

\* a1, ..., ak : T;
Clauses == [names : SeqsUpTo(AttrIds, 1, MaxAttrs), ty : TypeWords]

\* ENTITY name; clauses END_ENTITY;
EntityDecls == [name : EntityIds, clauses : SeqsUpTo(Clauses, 0, MaxClauses)]

RECURSIVE Commas(_)
Commas(names) ==
    IF Len(names) <= 1 THEN names
    ELSE <<Head(names), ",">> \o Commas(Tail(names))

ClauseText(clause) == Commas(clause.names) \o <<":", clause.ty, ";">>

RECURSIVE ClausesText(_)
ClausesText(clauses) ==
    IF clauses = <<>> THEN <<>>
    ELSE ClauseText(Head(clauses)) \o ClausesText(Tail(clauses))

EntityText(decl) ==
    <<"ENTITY", decl.name, ";">> \o ClausesText(decl.clauses) \o <<"END_ENTITY", ";">>

\* the text with its token at position dropped left out (0: the whole text)
Without(text, dropped) ==
    [k \in 1..(Len(text) - (IF dropped = 0 THEN 0 ELSE 1)) |->
        IF dropped = 0 \/ k < dropped THEN text[k] ELSE text[k + 1]]

\* what may follow a parameter type or an explicit attribute in a text
Followers == {<<>>, <<";">>, <<"END_ENTITY", ";">>}

Words == AttrIds \cup EntityIds \cup TypeIds \cup ReservedWords

Scopes == {"schema"}

Namespaces == SUBSET TypeIds

EnumerationItems == {"red", "green"}

SimpleTypes == {SimpleTypeOf(k) : k \in SimpleTypeKeywords}

UnderlyingTypes ==
    {AstSimple(ty) : ty \in SimpleTypes}
    \cup {AstReference(name) : name \in TypeIds}
    \cup {AstEnumeration(items) : items \in SeqsUpTo(EnumerationItems, 1, MaxItems)}
    \cup {AstSelect(types) : types \in SeqsUpTo(TypeIds, 1, MaxItems)}
    \cup {AstAggregate(kind, base) :
              kind \in AggregateKinds,
              base \in {AstSimple("Real")} \cup {AstReference(n) : n \in TypeIds}}

(***************************************************************************)
(* espr: state machine.  A behaviour is one call of a parser on a text or  *)
(* of the legalizer on a declaration; last records the call.               *)
(***************************************************************************)
InitEspr ==
    /\ sec = <<>>
    /\ pc = "espr"
    /\ table = Ap000Default
    /\ err = NoError
    /\ last = NoCall

ParseCall(op, written, dropped, input, result) ==
    [op |-> op, written |-> written, dropped |-> dropped,
     input |-> input, result |-> result]

ParseParamterType ==
    /\ pc = "espr"
    /\ \E word \in Words \cup Punctuation, rest \in Followers :
          LET input == <<word>> \o rest
          IN  last' = ParseCall("paramter_type", word, 0, input, paramter_type(input))
    /\ pc' = "returned"
    /\ UNCHANGED <<sec, table, err>>

ParseExplicitAttr ==
    /\ pc = "espr"
    /\ \E clause \in Clauses, rest \in Followers :
          \E dropped \in 0..Len(ClauseText(clause)) :
              LET input == Without(ClauseText(clause), dropped) \o rest
              IN  last' = ParseCall("explicit_attr", clause, dropped, input,
                                    explicit_attr(input))
    /\ pc' = "returned"
    /\ UNCHANGED <<sec, table, err>>

ParseEntityDecl ==
    /\ pc = "espr"
    /\ \E decl \in EntityDecls :
          \E dropped \in 0..(IF Len(decl.clauses) <= 1 THEN Len(EntityText(decl)) ELSE 0) :
              LET input == Without(EntityText(decl), dropped)
              IN  last' = ParseCall("entity_decl", decl, dropped, input,
                                    entity_decl(input))
    /\ pc' = "returned"
    /\ UNCHANGED <<sec, table, err>>

LegalizeCall(op, ns, scope, input, result) ==
    [op |-> op, ns |-> ns, scope |-> scope, input |-> input, result |-> result]

LegalizeUnderlyingType ==
    /\ pc = "espr"
    /\ \E ns \in Namespaces, scope \in Scopes, input \in UnderlyingTypes :
          last' = LegalizeCall("UnderlyingType::legalize", ns, scope, input,
                               UnderlyingType_legalize(ns, scope, input))
    /\ pc' = "returned"
    /\ UNCHANGED <<sec, table, err>>

LegalizeTypeDecl ==
    /\ pc = "espr"
    /\ \E ns \in Namespaces, scope \in Scopes, input \in UnderlyingTypes :
          \E type_id \in TypeIds :
              last' = LegalizeCall("TypeDecl::legalize", ns, scope,
                                   TypeDecl(type_id, input),
                                   TypeDecl_legalize(ns, scope, TypeDecl(type_id, input)))
    /\ pc' = "returned"
    /\ UNCHANGED <<sec, table, err>>

NextEspr ==
    \/ ParseParamterType
    \/ ParseExplicitAttr
    \/ ParseEntityDecl
    \/ LegalizeUnderlyingType
    \/ LegalizeTypeDecl

SpecEspr == InitEspr /\ [][NextEspr]_vars

(***************************************************************************)
(* Vocabulary of the properties                                            *)
(***************************************************************************)
EntityNames == {"A", "B", "C"}

IterOps == {"a_iter", "b_iter", "c_iter"}

IsGood(e) == e.kind = "Simple" /\ e.record \in GoodRecords

IsBad(e) == e.kind = "Simple" /\ e.record \in BadRecords

IsUnknownName(e) ==
    e.kind = "Simple" /\ to_uppercase(e.record.name) \notin EntityNames

IsComplex(e) == e.kind = "Complex"

\* two Simple records of the same entity type carry the same instance id
DuplicateAt(s, i, j) ==
    /\ i < j
    /\ s[i].kind = "Simple" /\ s[j].kind = "Simple"
    /\ s[i].record.name \in EntityNames
    /\ s[i].record.name = s[j].record.name
    /\ s[i].name = s[j].name

DuplicateIn(s) == \E i, j \in DOMAIN s : DuplicateAt(s, i, j)

\* a placeholder written as a reference to an id its map does not hold
Dangling(ph, map) == ph.tag = "Ref" /\ ph.id \notin DOMAIN map

\* the map an iterator call walked
IterMap(op, t) == IF op = "a_iter" THEN t.a ELSE IF op = "b_iter" THEN t.b ELSE t.c

Loaded == pc = "loaded"

\* from_section has just returned
Returned == last.op = "from_section"

\* the section from_section has just returned from
section == IF Returned THEN last.entities ELSE <<>>

Iterated == last.op \in IterOps

(***************************************************************************)
(* C1 (as claimed): a section in which two Simple records of one entity    *)
(* type carry the same instance id never loads: from_section does not      *)
(* return Ok for it, it fails with DuplicateId(id, entity).                *)
(***************************************************************************)
C1_DuplicateIdRejected ==
    (Returned /\ DuplicateIn(section)
         /\ \A i \in DOMAIN section : IsGood(section[i]))
        => /\ pc = "failed"
           /\ \E i, j \in DOMAIN section :
                 /\ DuplicateAt(section, i, j)
                 /\ err = DuplicateId(section[i].name, section[i].record.name)

(***************************************************************************)
(* C2: on every loaded table, a B holder whose field a is a reference to   *)
(* an id absent from the A map resolves to Err(UnknownEntity(id)); a C     *)
(* holder whose p is such a reference resolves to Err(UnknownEntity(p's    *)
(* id)), and one whose p resolves and whose q is a reference absent from   *)
(* the B map resolves to Err(UnknownEntity(q's id)).  The items b_iter and *)
(* c_iter yield for stored holders are these results.                      *)
(***************************************************************************)
C2_DanglingReferenceIsUnknownEntity ==
    Loaded =>
        /\ \A h \in BHolders :
              Dangling(h.a, table.a)
                  => BHolder_into_owned(h, table) = Err(UnknownEntity(h.a.id))
        /\ \A h \in CHolders :
              /\ Dangling(h.p, table.a)
                    => CHolder_into_owned(h, table) = Err(UnknownEntity(h.p.id))
              /\ (~Dangling(h.p, table.a) /\ Dangling(h.q, table.b))
                    => CHolder_into_owned(h, table) = Err(UnknownEntity(h.q.id))
        /\ last.op = "b_iter" =>
              \A k \in DOMAIN last.order :
                  LET h == table.b[last.order[k]]
                  IN  Dangling(h.a, table.a)
                          => last.items[k] = Err(UnknownEntity(h.a.id))
        /\ last.op = "c_iter" =>
              \A k \in DOMAIN last.order :
                  LET h == table.c[last.order[k]]
                  IN  (Dangling(h.p, table.a) \/ Dangling(h.q, table.b))
                          => last.items[k] = Err(UnknownEntity(
                                 IF Dangling(h.p, table.a) THEN h.p.id ELSE h.q.id))

\* b_iter has yielded Err(UnknownEntity(m)) for a stored B(z, #m) with no A #m
C2_Witness ==
    /\ last.op = "b_iter"
    /\ \E k \in DOMAIN last.order :
          /\ Dangling(table.b[last.order[k]].a, table.a)
          /\ last.items[k] = Err(UnknownEntity(table.b[last.order[k]].a.id))

(***************************************************************************)
(* C3 (as claimed): an entry with id n that holds a reference back to id n *)
(* makes the iterator of its entity type yield Err(CyclicReference(n)) for *)
(* that entry.                                                             *)
(***************************************************************************)
SelfReferencing(op, h, n) ==
    IF op = "b_iter" THEN h.a = Ref(n)
    ELSE IF op = "c_iter" THEN h.p = Ref(n) \/ h.q = Ref(n)
    ELSE FALSE

ResolvableA(ph, t) == ~Dangling(ph, t.a)

ResolvableB(ph, t) ==
    /\ ~Dangling(ph, t.b)
    /\ ResolvableA((IF ph.tag = "Owned" THEN ph.val ELSE t.b[ph.id]).a, t)

Resolvable(ty, h, t) ==
    IF ty = "A" THEN TRUE
    ELSE IF ty = "B" THEN ResolvableA(h.a, t)
    ELSE ResolvableA(h.p, t) /\ ResolvableB(h.q, t)

IterType(op) == IF op = "a_iter" THEN "A" ELSE IF op = "b_iter" THEN "B" ELSE "C"

C4_TableUnchangedByResolution ==
    [][Loaded => (Loaded' /\ table' = table)]_vars

\* an iterator has run on a table holding references and yielded an error
C4_Witness ==
    /\ Loaded
    /\ last.op = "c_iter"
    /\ \E k \in DOMAIN last.items : ~last.items[k].ok
    /\ \E n \in DOMAIN table.c : table.c[n].q.tag = "Ref"
    /\ \E n \in DOMAIN table.c : table.c[n].p.tag = "Owned"

(***************************************************************************)
(* C5: on a table where every reference a holder makes exists under the    *)
(* expected entity type, into_owned returns the owned value built field by *)
(* field: a Ref(Entity(m)) field is the resolution of the holder stored at *)
(* m, an Owned field the resolution of the inline holder, a primitive      *)
(* field the holder's value.  An id reached along two paths gives two      *)
(* equal values.                                                           *)
(***************************************************************************)
\* the holder a placeholder stands for
Target(ph, map) == IF ph.tag = "Owned" THEN ph.val ELSE map[ph.id]

ExpectedA(ph, t) == A(Target(ph, t.a).x, Target(ph, t.a).y)

ExpectedB(ph, t) == B(Target(ph, t.b).z, ExpectedA(Target(ph, t.b).a, t))

C5_ResolutionFollowsReferences ==
    Loaded =>
        /\ \A h \in AHolders : AHolder_into_owned(h, table) = Ok(A(h.x, h.y))
        /\ \A h \in BHolders :
              Resolvable("B", h, table)
                  => BHolder_into_owned(h, table) = Ok(B(h.z, ExpectedA(h.a, table)))
        /\ \A h \in CHolders :
              Resolvable("C", h, table)
                  => CHolder_into_owned(h, table)
                         = Ok(C(ExpectedA(h.p, table), ExpectedB(h.q, table)))
        /\ last.op = "c_iter" =>
              \A k \in DOMAIN last.order :
                  LET h == table.c[last.order[k]]
                  IN  Resolvable("C", h, table) =>
                          /\ last.items[k]
                                 = Ok(C(ExpectedA(h.p, table), ExpectedB(h.q, table)))
                          /\ (h.p.tag = "Ref" /\ h.q.tag = "Ref"
                                  /\ table.b[h.q.id].a = h.p)
                                => last.items[k].val.p = last.items[k].val.q.a

\* c_iter has resolved  C(#m, #k)  with  #k = B(z, #m)  and  #m = A(x, y):
\* the A is reached along two paths
C5_Witness ==
    /\ last.op = "c_iter"
    /\ \E k \in DOMAIN last.order :
          LET h == table.c[last.order[k]]
          IN  /\ h.p.tag = "Ref" /\ h.q.tag = "Ref"
              /\ h.q.id \in DOMAIN table.b
              /\ table.b[h.q.id].a = h.p
              /\ h.p.id \in DOMAIN table.a
              /\ last.items[k].ok
              /\ last.items[k].val.p = last.items[k].val.q.a
              /\ last.items[k].val.p = A(table.a[h.p.id].x, table.a[h.p.id].y)

(***************************************************************************)
(* C6: loading does not depend on the order of the records.  A section of  *)
(* well-formed records loads whatever ids its records cite (ids written    *)
(* later in the section, or nowhere).  When no two records of one entity   *)
(* type share an id, the section with any two records exchanged loads to   *)
(* the same table, and so does every permutation of a section of at most   *)
(* MaxLen + 1 records; every stored holder then resolves to the same       *)
(* result.                                                                 *)
(***************************************************************************)
RECURSIVE PermutationsOf(_)
PermutationsOf(S) ==
    IF S = {} THEN {<<>>}
    ELSE UNION {{<<x>> \o p : p \in PermutationsOf(S \ {x})} : x \in S}

Permuted(s, f) == [k \in DOMAIN s |-> s[f[k]]]

Swapped(s, i, j) ==
    [k \in DOMAIN s |-> IF k = i THEN s[j] ELSE IF k = j THEN s[i] ELSE s[k]]

Reorderings(s) ==
    {Swapped(s, i, j) : i, j \in DOMAIN s}
    \cup (IF Len(s) <= MaxLen + 1
          THEN {Permuted(s, f) : f \in PermutationsOf(DOMAIN s)}
          ELSE {})

SameResolutions(t1, t2) ==
    /\ \A n \in DOMAIN t1.b :
          BHolder_into_owned(t1.b[n], t1) = BHolder_into_owned(t2.b[n], t2)
    /\ \A n \in DOMAIN t1.c :
          CHolder_into_owned(t1.c[n], t1) = CHolder_into_owned(t2.c[n], t2)

C6_LoadIsOrderIndependent ==
    /\ (Returned /\ \A i \in DOMAIN section : IsGood(section[i])) => Loaded
    /\ (Loaded /\ Returned /\ ~DuplicateIn(section)) =>
          \A s \in Reorderings(section) :
              LET r == from_section(s)
              IN  /\ r.tag = "Ok"
                  /\ r.table = table
                  /\ SameResolutions(r.table, table)

\* a section whose first record cites the id of its second record has
\* loaded, and the reference resolves
C6_Witness ==
    /\ Loaded
    /\ Len(section) = 2
    /\ section[1].record.name = "B" /\ section[2].record.name = "A"
    /\ section[1].record.args[2] = RefArg(section[2].name)
    /\ section[1].name \in DOMAIN table.b
    /\ BHolder_into_owned(table.b[section[1].name], table).ok

(***************************************************************************)
(* C7 (as claimed): a record that fails to deserialize does not abort the  *)
(* load: the other, well-formed records of the section are loaded and      *)
(* available from the table.                                               *)
(***************************************************************************)
\* the map of the table that holds the records named like e's record
MapOf(t, e) ==
    IF e.record.name = "A" THEN t.a ELSE IF e.record.name = "B" THEN t.b ELSE t.c

C8_UnknownNameIsError ==
    \A i \in DOMAIN section :
        (Returned /\ IsUnknownName(section[i])
             /\ \A j \in 1..(i - 1) : IsGood(section[j]))
            => /\ pc = "failed"
               /\ err = UnknownEntityType(section[i].record.name)

(***************************************************************************)
(* C9: an iterator yields exactly one item per holder stored for its       *)
(* entity type, each key visited once; the item of a holder is Err exactly *)
(* when that holder's own references do not all resolve, and it is the     *)
(* result of resolving that holder alone, whatever the other items are.    *)
(***************************************************************************)
C9_IteratorYieldsOneItemPerHolder ==
    Iterated =>
        LET map == IterMap(last.op, table)
            ty == IterType(last.op)
        IN  /\ Len(last.items) = Cardinality(DOMAIN map)
            /\ Len(last.order) = Len(last.items)
            /\ {last.order[k] : k \in DOMAIN last.order} = DOMAIN map
            /\ \A k \in DOMAIN last.order :
                  /\ last.items[k].ok = Resolvable(ty, map[last.order[k]], table)
                  /\ last.items[k] = into_owned(ty, map[last.order[k]], table)

\* b_iter has yielded an Err first and an Ok after it
C9_Witness ==
    /\ last.op = "b_iter"
    /\ Len(last.items) = 2
    /\ ~last.items[1].ok
    /\ last.items[2].ok

(***************************************************************************)
(* C10 (as claimed): a Complex entity instance makes from_section return   *)
(* Err(Unimplemented("complex instance")); the loader does not panic.      *)
(***************************************************************************)
C10_ComplexIsError ==
    \A i \in DOMAIN section :
        (Returned /\ IsComplex(section[i])
             /\ \A j \in 1..(i - 1) : IsGood(section[j]))
            => /\ pc = "failed"
               /\ err = Unimplemented("complex instance")

(***************************************************************************)
(* C11 (as claimed): from_section dispatches on the uppercased record      *)
(* name.  A section of well-formed records, each named like an entity in   *)
(* either case and no two sharing an id, loads; every record is stored     *)
(* under its instance id as the holder its entity's deserializer returns,  *)
(* in the map of the entity its uppercased name names and in no other map. *)
(***************************************************************************)
IsLowerCase(e) == e.kind = "Simple" /\ e.record \in LowerCaseRecords

holder_deserialize(record) ==
    IF to_uppercase(record.name) = "A" THEN AHolder_deserialize(record)
    ELSE IF to_uppercase(record.name) = "B" THEN BHolder_deserialize(record)
    ELSE CHolder_deserialize(record)

MapNamed(t, name) == IF name = "A" THEN t.a ELSE IF name = "B" THEN t.b ELSE t.c

C11_DispatchIgnoresCase ==
    (/\ Returned
     /\ \A i \in DOMAIN section : IsGood(section[i]) \/ IsLowerCase(section[i])
     /\ \A i, j \in DOMAIN section : i # j => section[i].name # section[j].name)
        => /\ Loaded
           /\ \A i \in DOMAIN section :
                 \A ty \in EntityNames :
                     IF ty = to_uppercase(section[i].record.name)
                     THEN /\ section[i].name \in DOMAIN MapNamed(table, ty)
                          /\ Ok(MapNamed(table, ty)[section[i].name])
                                 = holder_deserialize(section[i].record)
                     ELSE section[i].name \notin DOMAIN MapNamed(table, ty)

(***************************************************************************)
(* C12: a loaded table holds what the records wrote, references not        *)
(* followed.  Every record of the section is a well-formed A, B or C; each *)
(* map has an entry for exactly the ids its entity's records carry, so     *)
(* inline records add no entry and a section in which no two records of    *)
(* one entity share an id gives as many entries as records.  The holder    *)
(* stored for a record has the reals as written, Ref(n) for an argument    *)
(* written #n whether or not n is in the table, and Owned of the inline    *)
(* record's holder for an inline record, built the same way.               *)
(***************************************************************************)
\* the last record of entity ty with instance id n in the section s
RecordOf(s, ty, n) ==
    LET at == {i \in DOMAIN s : s[i].record.name = ty /\ s[i].name = n}
    IN  s[CHOOSE i \in at : \A j \in at : j <= i].record

\* the A placeholder an argument writes
WrittenA(arg) ==
    IF arg.t = "Ref" THEN Ref(arg.id)
    ELSE Owned(AHolder(arg.args[1].v, arg.args[2].v))

\* the B placeholder an argument writes
WrittenB(arg) ==
    IF arg.t = "Ref" THEN Ref(arg.id)
    ELSE Owned(BHolder(arg.args[1].v, WrittenA(arg.args[2])))

IdsOf(s, ty) == {s[i].name : i \in {j \in DOMAIN s : s[j].record.name = ty}}

C12_HoldersStoreWhatWasWritten ==
    (Returned /\ Loaded) =>
        /\ \A i \in DOMAIN section : IsGood(section[i])
        /\ \A ty \in EntityNames : DOMAIN MapNamed(table, ty) = IdsOf(section, ty)
        /\ ~DuplicateIn(section) =>
              Cardinality(DOMAIN table.a) + Cardinality(DOMAIN table.b)
                  + Cardinality(DOMAIN table.c) = Len(section)
        /\ \A n \in DOMAIN table.a :
              LET r == RecordOf(section, "A", n)
              IN  table.a[n] = AHolder(r.args[1].v, r.args[2].v)
        /\ \A n \in DOMAIN table.b :
              LET r == RecordOf(section, "B", n)
              IN  table.b[n] = BHolder(r.args[1].v, WrittenA(r.args[2]))
        /\ \A n \in DOMAIN table.c :
              LET r == RecordOf(section, "C", n)
              IN  table.c[n] = CHolder(WrittenA(r.args[1]), WrittenB(r.args[2]))

\* a section of three records has loaded into three entries: a B stored
\* as a reference to an A of the table, a C stored with both fields inline
C12_Witness ==
    /\ Returned /\ Loaded
    /\ Len(section) = 3
    /\ \E n \in DOMAIN table.b :
          table.b[n].a.tag = "Ref" /\ table.b[n].a.id \in DOMAIN table.a
    /\ \E n \in DOMAIN table.c :
          /\ table.c[n].p.tag = "Owned"
          /\ table.c[n].q.tag = "Owned" /\ table.c[n].q.val.a.tag = "Owned"
    /\ Cardinality(DOMAIN table.a) + Cardinality(DOMAIN table.b)
           + Cardinality(DOMAIN table.c) = 3

(***************************************************************************)
(* C13: entity_decl expands the comma lists.  The entity parsed from       *)
(* ENTITY e; clause 1 ... clause n END_ENTITY;  where clause j is          *)
(* a1, ..., ak : T;  has, for every clause in the order of declaration, k  *)
(* consecutive attributes named a1, ..., ak in the written order, each     *)
(* paired with an equal copy of the type T parses to; it has no other      *)
(* attribute.  explicit_attr alone returns the names in the written order  *)
(* with that type.                                                         *)
(***************************************************************************)
\* the number of names written in the first n clauses
RECURSIVE NamesBefore(_, _)
NamesBefore(clauses, n) ==
    IF n = 0 THEN 0 ELSE NamesBefore(clauses, n - 1) + Len(clauses[n].names)

\* the parameter type a type word stands for
TypeWritten(word) ==
    IF word \in SimpleTypeKeywords THEN SimpleParameterType(SimpleTypeOf(word))
    ELSE Named(word)

C13_CommaListsExpandInOrder ==
    /\ (last.op = "explicit_attr" /\ last.dropped = 0) =>
          /\ last.result.ok
          /\ last.result.val = <<last.written.names, TypeWritten(last.written.ty)>>
    /\ (last.op = "entity_decl" /\ last.dropped = 0) =>
          /\ last.result.ok
          /\ last.result.rest = <<>>
          /\ last.result.val.name = last.written.name
          /\ LET clauses == last.written.clauses
                 attributes == last.result.val.attributes
             IN  /\ Len(attributes) = NamesBefore(clauses, Len(clauses))
                 /\ \A j \in DOMAIN clauses :
                       \A i \in DOMAIN clauses[j].names :
                           attributes[NamesBefore(clauses, j - 1) + i]
                               = <<clauses[j].names[i], TypeWritten(clauses[j].ty)>>

\* entity_decl has parsed a declaration of two clauses, the first a comma
\* list of two names, the second of another type, into three attributes
C13_Witness ==
    /\ last.op = "entity_decl"
    /\ last.dropped = 0
    /\ Len(last.written.clauses) = 2
    /\ Len(last.written.clauses[1].names) = 2
    /\ last.written.clauses[1].names[1] # last.written.clauses[1].names[2]
    /\ last.written.clauses[1].ty # last.written.clauses[2].ty
    /\ last.result.ok
    /\ Len(last.result.val.attributes) = 3
    /\ last.result.val.attributes[1][2] = last.result.val.attributes[2][2]
    /\ last.result.val.attributes[2][2] # last.result.val.attributes[3][2]

(***************************************************************************)
(* C14 (as claimed): UnderlyingType::legalize is total.  For every         *)
(* underlying type, the Set, Bag, List and Array aggregates included,      *)
(* whose referenced names are all declared in the namespace it returns Ok, *)
(* a select with its members resolved in the written order and an          *)
(* enumeration with its items unchanged; when a referenced name is not     *)
(* declared it returns Err(UnresolvedName(name)) for such a name.          *)
(***************************************************************************)
\* the type names an underlying type refers to
ReferencedNames(input) ==
    IF input.kind = "Reference" THEN {input.name}
    ELSE IF input.kind = "Select" THEN {input.types[k] : k \in DOMAIN input.types}
    ELSE IF input.kind \in AggregateKinds /\ input.base.kind = "Reference"
    THEN {input.base.name}
    ELSE {}

C14_LegalizeIsTotal ==
    last.op = "UnderlyingType::legalize" =>
        IF ReferencedNames(last.input) \subseteq last.ns
        THEN /\ last.result.ok
             /\ last.input.kind = "Select" =>
                   last.result.val
                       = UnderlyingSelect([k \in DOMAIN last.input.types |->
                             TypeRefNamed(last.scope, last.input.types[k])])
             /\ last.input.kind = "Enumeration" =>
                   last.result.val = UnderlyingEnumeration(last.input.items)
        ELSE \E name \in ReferencedNames(last.input) \ last.ns :
                 last.result = Err(UnresolvedName(name))

(***************************************************************************)
(* C15: paramter_type classifies the type word by kind.  A simple-type     *)
(* keyword parses as Simple of the simple type it names (REAL as Real,     *)
(* STRING as String_) and never as Named; a word that is an identifier     *)
(* parses as Named of that identifier; in both cases the word alone is     *)
(* consumed.  The attribute types of explicit_attr and entity_decl are     *)
(* classified the same way, and  x, y : REAL;  parses to the names x, y    *)
(* with the type Simple(Real) and no residual input.                       *)
(***************************************************************************)
Identifiers == Words \ ReservedWords

C15_TypeClassifiedByKind ==
    /\ last.op = "paramter_type" =>
          /\ Head(last.input) \in SimpleTypeKeywords =>
                /\ last.result.ok
                /\ last.result.val.tag = "Simple"
                /\ last.result.val.ty = SimpleTypeOf(Head(last.input))
                /\ last.result.rest = Tail(last.input)
          /\ Head(last.input) = "REAL" =>
                last.result = POk(SimpleParameterType("Real"), Tail(last.input))
          /\ Head(last.input) = "STRING" =>
                last.result = POk(SimpleParameterType("String_"), Tail(last.input))
          /\ Head(last.input) \in Identifiers =>
                last.result = POk(Named(Head(last.input)), Tail(last.input))
    /\ (last.op = "explicit_attr" /\ last.dropped = 0) =>
          /\ last.result.ok
          /\ last.result.val[2].tag
                 = (IF last.written.ty \in SimpleTypeKeywords THEN "Simple" ELSE "Named")
          /\ last.input = <<"x", ",", "y", ":", "REAL", ";">> =>
                last.result = POk(<<(<<"x", "y">>), SimpleParameterType("Real")>>, <<>>)
    /\ (last.op = "entity_decl" /\ last.dropped = 0) =>
          /\ last.result.ok
          /\ \A k \in DOMAIN last.result.val.attributes :
                LET ty == last.result.val.attributes[k][2]
                IN  \/ ty.tag = "Simple" /\ ty.ty \in SimpleTypes
                    \/ ty.tag = "Named" /\ ty.name \in TypeIds

\* explicit_attr has parsed  x, y : REAL;
C15_Witness ==
    /\ last.op = "explicit_attr"
    /\ last.input = <<"x", ",", "y", ":", "REAL", ";">>
    /\ last.result.ok
    /\ last.result.val[1] = <<"x", "y">>
    /\ last.result.val[2] = SimpleParameterType("Real")
    /\ last.result.rest = <<>>

(***************************************************************************)
(* C16: resolution always terminates.  On every loaded table, whatever its *)
(* references (dangling, to the entry's own id, to each other's ids),      *)
(* into_owned of any holder returns Ok or Err(UnknownEntity) after at most *)
(* as many table lookups as the entity nesting C -> B -> A has reference   *)
(* fields: none for A, one for B, three for C (p, q and the a of q).  It   *)
(* returns Ok exactly when every lookup finds its id and otherwise the     *)
(* error of its last lookup.  Every item of a_iter, b_iter and c_iter is   *)
(* such a result, one per stored holder.                                   *)
(***************************************************************************)
HoldersOf(ty) == IF ty = "A" THEN AHolders ELSE IF ty = "B" THEN BHolders ELSE CHolders

\* the reference fields reached from a holder of the entity along the
\* nesting C -> B -> A
RefFields(ty) == IF ty = "A" THEN 0 ELSE IF ty = "B" THEN 1 ELSE 1 + (1 + 1)

Found(l, t) == l.id \in DOMAIN MapNamed(t, l.ty)

C16_ResolutionTerminates ==
    Loaded =>
        /\ \A ty \in EntityNames :
              \A h \in HoldersOf(ty) :
                  LET r == into_owned(ty, h, table)
                      l == lookups(ty, h, table)
                  IN  /\ Len(l) <= RefFields(ty)
                      /\ r.ok = (\A k \in DOMAIN l : Found(l[k], table))
                      /\ \A k \in 1..(Len(l) - 1) : Found(l[k], table)
                      /\ ~r.ok => r = Err(UnknownEntity(l[Len(l)].id))
        /\ Iterated =>
              /\ Len(last.items) = Cardinality(DOMAIN IterMap(last.op, table))
              /\ \A k \in DOMAIN last.items :
                    \/ last.items[k].ok
                    \/ last.items[k].err.kind = "UnknownEntity"

\* c_iter has completed on a table whose entries cite their own and each
\* other's ids: the C entry resolved after three lookups
C16_Witness ==
    /\ last.op = "c_iter"
    /\ \E n \in DOMAIN table.c :
          /\ table.c[n] = CHolder(Ref(n), Ref(n))
          /\ n \in DOMAIN table.b /\ table.b[n].a = Ref(n)
          /\ n \in DOMAIN table.a
          /\ Len(CHolder_lookups(table.c[n], table)) = 3
          /\ \E k \in DOMAIN last.order : last.order[k] = n /\ last.items[k].ok

(***************************************************************************)
(* C17: a reference is looked up in the map of the expected entity type    *)
(* only.  On every loaded table a B holder whose a is #m resolves to the A *)
(* stored at m, and to Err(UnknownEntity(m)) when the A map has no m,      *)
(* whatever the B and C maps hold at m; the p of a C holder likewise; the  *)
(* q of a C holder is looked up in the B map only.  get_entity for an      *)
(* entity type answers from that type's map.  Entries of different entity  *)
(* types under one id do not interfere: each map is what the records of    *)
(* its entity alone load to.                                               *)
(***************************************************************************)
\* the records of entity ty in the section s, in their order
OnlyOf(s, ty) == SelectSeq(s, LAMBDA e : e.record.name = ty)

C17_ReferenceResolvedInExpectedMap ==
    /\ Loaded =>
          /\ \A h \in BHolders :
                h.a.tag = "Ref" =>
                    BHolder_into_owned(h, table)
                        = IF h.a.id \in DOMAIN table.a
                          THEN Ok(B(h.z, A(table.a[h.a.id].x, table.a[h.a.id].y)))
                          ELSE Err(UnknownEntity(h.a.id))
          /\ \A h \in CHolders :
                /\ (h.p.tag = "Ref" /\ h.p.id \notin DOMAIN table.a)
                      => CHolder_into_owned(h, table) = Err(UnknownEntity(h.p.id))
                /\ (h.p.tag = "Ref" /\ h.p.id \in DOMAIN table.a
                        /\ CHolder_into_owned(h, table).ok)
                      => CHolder_into_owned(h, table).val.p
                             = A(table.a[h.p.id].x, table.a[h.p.id].y)
                /\ (ResolvableA(h.p, table) /\ h.q.tag = "Ref"
                        /\ h.q.id \notin DOMAIN table.b)
                      => CHolder_into_owned(h, table) = Err(UnknownEntity(h.q.id))
                /\ (ResolvableA(h.p, table) /\ h.q.tag = "Ref"
                        /\ h.q.id \in DOMAIN table.b)
                      => CHolder_into_owned(h, table).ok
                             = ResolvableA(table.b[h.q.id].a, table)
          /\ last.op = "get_entity" =>
                last.res = IF last.id \in DOMAIN MapNamed(table, last.ty)
                           THEN Ok(MapNamed(table, last.ty)[last.id])
                           ELSE Err(UnknownEntity(last.id))
    /\ (Returned /\ Loaded) =>
          \A ty \in EntityNames :
              MapNamed(table, ty) = MapNamed(from_section(OnlyOf(section, ty)).table, ty)

\* b_iter has yielded Err(UnknownEntity(m)) for a B entry citing #m on a
\* table that stores m as a B or a C but not as an A, and that stores the
\* entry's own id as an A too
C17_Witness ==
    /\ last.op = "b_iter"
    /\ \E k \in DOMAIN last.order :
          LET n == last.order[k]
              m == table.b[n].a.id
          IN  /\ table.b[n].a.tag = "Ref"
              /\ m \notin DOMAIN table.a
              /\ m \in DOMAIN table.b \cup DOMAIN table.c
              /\ n \in DOMAIN table.a
              /\ last.items[k] = Err(UnknownEntity(m))

====
